---- MODULE Spec2Model ----
(***************************************************************************)
(* Model of the chunked calendar load of PostgreSQL-Jalali-Converter:      *)
(* main (postgresql_jalali_converter.py) provisions the source and target  *)
(* tables, then process_data_in_chunks walks [START_DATE, END_DATE] in     *)
(* windows; each window is enriched, appended to the source (staging)      *)
(* table, merged into the target table and the source table is truncated.  *)
(*                                                                         *)
(* Dates are the "%Y-%m-%d" strings the code handles, modelled as the      *)
(* sequence of their character codes, so that the string comparisons of    *)
(* the loop (<=, min) and the strptime/strftime conversions are modelled   *)
(* by what they do.                                                        *)
(***************************************************************************)
EXTENDS Integers, Sequences, FiniteSets, TLC

VARIABLES start_date, end_date, chunk_size, oracle, run, pc, current_date,
          next_chunk_end_date, chunk_calendar_df, db, ops, log, outcome,
          error, lookup, winStartDb, runStartDb, prev, call, ret, conn

vars == <<start_date, end_date, chunk_size, oracle, run, pc, current_date,
          next_chunk_end_date, chunk_calendar_df, db, ops, log, outcome,
          error, lookup, winStartDb, runStartDb, prev, call, ret, conn>>

(***************************************************************************)
(* Bounds of the model.                                                    *)
(***************************************************************************)
MaxSpan == 5
MaxBack == 2
MaxChunk == 2
MaxRuns == 2
MaxEvents == 3
MaxNumber == 13

(***************************************************************************)
(* Date strings and the datetime conversions used by the loop.             *)
(***************************************************************************)
Dash == 45
Zero == 48

IsLeap(y) == (y % 4 = 0) /\ ((y % 100 # 0) \/ (y % 400 = 0))

DaysInMonth(y, m) ==
    IF m = 2 THEN (IF IsLeap(y) THEN 29 ELSE 28)
    ELSE IF m \in {4, 6, 9, 11} THEN 30 ELSE 31

RECURSIVE DaysBeforeMonth(_, _)
DaysBeforeMonth(y, m) ==
    IF m <= 1 THEN 0 ELSE DaysBeforeMonth(y, m - 1) + DaysInMonth(y, m - 1)

DaysBeforeYear(y) ==
    LET p == y - 1 IN (p * 365) + (p \div 4) - (p \div 100) + (p \div 400)

\* date.toordinal(): 0001-01-01 is day 1
Ymd2Ord(y, m, d) == DaysBeforeYear(y) + DaysBeforeMonth(y, m) + d

RECURSIVE MonthOf(_, _, _)
\* the month holding the n-th (0-based) day of year y, scanning from month m
MonthOf(y, m, n) ==
    IF n < DaysInMonth(y, m) THEN <<m, n + 1>>
    ELSE MonthOf(y, m + 1, n - DaysInMonth(y, m))

Ymd4(year, n1, r1) ==
    IF n1 = 4 THEN <<year + 3, 12, 31>>
    ELSE LET md == MonthOf(year + n1, 1, r1) IN <<year + n1, md[1], md[2]>>

Ymd3(year, r100) == Ymd4(year + ((r100 \div 1461) * 4), (r100 % 1461) \div 365, (r100 % 1461) % 365)

Ymd2(year, n100, r400) ==
    IF n100 = 4 THEN <<year + 399, 12, 31>>
    ELSE Ymd3(year + (n100 * 100), r400 % 36524)

\* date.fromordinal(): the <<year, month, day>> of an ordinal
Ord2Ymd(ordinal) ==
    Ymd2((((ordinal - 1) \div 146097) * 400) + 1,
         ((ordinal - 1) % 146097) \div 36524, (ordinal - 1) % 146097)

Pad2(n) == <<Zero + (n \div 10), Zero + (n % 10)>>

StrOfYmd(t) ==
    Pad2(t[1] \div 100) \o Pad2(t[1] % 100) \o <<Dash>> \o Pad2(t[2]) \o <<Dash>> \o Pad2(t[3])

\* strftime("%Y-%m-%d"): zero padded year, month and day
Strftime(ordinal) == StrOfYmd(Ord2Ymd(ordinal))

\* strptime(s, "%Y-%m-%d"), as the ordinal of the parsed date
Strptime(s) ==
    LET y == ((s[1] - Zero) * 1000) + ((s[2] - Zero) * 100)
             + ((s[3] - Zero) * 10) + (s[4] - Zero)
        m == ((s[6] - Zero) * 10) + (s[7] - Zero)
        d == ((s[9] - Zero) * 10) + (s[10] - Zero)
    IN  Ymd2Ord(y, m, d)

\* (strptime(s) + timedelta(days=n)).strftime()
AddDays(s, n) == Strftime(Strptime(s) + n)

RECURSIVE StrLess(_, _)
\* Python's < on str: lexicographic on the character codes
StrLess(a, b) ==
    IF b = <<>> THEN FALSE
    ELSE IF a = <<>> THEN TRUE
    ELSE IF Head(a) # Head(b) THEN Head(a) < Head(b)
    ELSE StrLess(Tail(a), Tail(b))

StrLE(a, b) == ~StrLess(b, a)

\* Python's min(a, b) on str
StrMin(a, b) == IF StrLess(b, a) THEN b ELSE a

NoDate == <<>>

(***************************************************************************)
(* The holiday service and the enricher.                                   *)
(***************************************************************************)
\* two ways the holiday service may answer: every day is a holiday, or the
\* days of even ordinal are
Oracles == {"every_day", "even_days"}

\* an event of a response: its holiday flag and its description (a string)
Descriptions == {<<65>>, <<66>>}
Events == [is_holiday : BOOLEAN, description : Descriptions]
EventLists == UNION {[1..n -> Events] : n \in 0..MaxEvents}

\* what requests.get and json.loads can meet: no response in time, or a
\* response with a status and a body that is JSON or not, with or without
\* an "events" list
Statuses == {200, 404, 500}
TimedOut == [arrives |-> FALSE, status |-> 0, parses |-> FALSE,
             has_events |-> FALSE, events |-> <<>>]
Answer(status, events) == [arrives |-> TRUE, status |-> status, parses |-> TRUE,
                           has_events |-> TRUE, events |-> events]
Responses ==
    {TimedOut}
    \cup {[arrives |-> TRUE, status |-> st, parses |-> FALSE,
           has_events |-> FALSE, events |-> <<>>] : st \in Statuses}
    \cup {[arrives |-> TRUE, status |-> st, parses |-> TRUE,
           has_events |-> FALSE, events |-> <<>>] : st \in Statuses}
    \cup {Answer(st, es) : st \in Statuses, es \in EventLists}

Comma == 44
Space == 32

RECURSIVE Join(_, _)
\* sep.join(strings)
Join(sep, strings) ==
    IF strings = <<>> THEN <<>>
    ELSE IF Len(strings) = 1 THEN strings[1]
    ELSE strings[1] \o sep \o Join(sep, Tail(strings))

Lookup(raised, flag, text) ==
    [raised |-> raised, is_holiday |-> flag, holiday_events |-> text]

RECURSIVE EventLoopAll(_, _, _)
EventLoopAll(events, flag, found) ==
    IF events = <<>> THEN Lookup("none", flag, Join(<<Comma, Space>>, found))
    ELSE EventLoopAll(Tail(events), flag \/ Head(events).is_holiday,
                      Append(found, Head(events).description))

RECURSIVE EventLoop(_, _, _)
\* lines 99-111: the loop over data["events"] and the returned Series
EventLoop(events, flag, found) ==
    IF events = <<>> THEN Lookup("none", flag, Join(<<Comma, Space>>, found))
    ELSE IF Head(events).is_holiday
         THEN EventLoop(Tail(events), TRUE, Append(found, Head(events).description))
         ELSE EventLoop(Tail(events), flag, found)

\* every description is collected, flagged or not
GetHolidayInfoPerDayAllEvents(resp) ==
    IF ~resp.arrives THEN Lookup("Timeout", FALSE, <<>>)
    ELSE IF ~resp.parses THEN Lookup("JSONDecodeError", FALSE, <<>>)
    ELSE IF ~resp.has_events THEN Lookup("KeyError", FALSE, <<>>)
    ELSE EventLoopAll(resp.events, FALSE, <<>>)

\* _get_holiday_info_per_day: requests.get raises when no response arrives in
\* time, json.loads raises on a body that is not JSON, data["events"] raises
\* when the key is missing; the status of the response is not looked at
GetHolidayInfoPerDay(resp) ==
    IF ~resp.arrives THEN Lookup("Timeout", FALSE, <<>>)
    ELSE IF ~resp.parses THEN Lookup("JSONDecodeError", FALSE, <<>>)
    ELSE IF ~resp.has_events THEN Lookup("KeyError", FALSE, <<>>)
    ELSE EventLoop(resp.events, FALSE, <<>>)

\* the response of the holiday service for a day while it is in mode o
OracleResponse(o, date) ==
    IF (o = "every_day") \/ (Strptime(date) % 2 = 0)
    THEN Answer(200, <<[is_holiday |-> TRUE, description |-> <<65>>]>>)
    ELSE Answer(200, <<[is_holiday |-> FALSE, description |-> <<66>>]>>)

\* what the holiday service answers for a day while it is in mode o
HolidayAnswer(o, date) == GetHolidayInfoPerDay(OracleResponse(o, date)).is_holiday

(***************************************************************************)
(* The name mappings of the enricher.                                      *)
(***************************************************************************)
quarter_mapper_dict == [n \in 1..4 |-> <<"bahar", "tabestan", "paeez", "zemestan">>[n]]

month_mapper_dict ==
    [n \in 1..12 |-> <<"farvardin", "ordibehesht", "khordad", "tir", "mordad",
                       "shahrivar", "mehr", "aban", "azar", "dey", "bahman",
                       "esfand">>[n]]

weekday_mapper_dict ==
    [n \in 0..6 |-> <<"shanbeh", "yekshanbeh", "doshanbeh", "seshanbeh",
                      "chaharshanbeh", "panjshanbeh", "jomeh">>[n + 1]]

\* dict.get(key, default)
DictGet(dict, key, default) == IF key \in DOMAIN dict THEN dict[key] ELSE default

MapQuarterNumberToName(n) == DictGet(quarter_mapper_dict, n, "Unknown")

\* the last month is missing from the table
MapMonthNumberToNameShort(n) ==
    DictGet([k \in 1..11 |-> month_mapper_dict[k]], n, "Unknown")

MapMonthNumberToName(n) == DictGet(month_mapper_dict, n, "Unknown")

MapWeekdayNumberToName(n) == DictGet(weekday_mapper_dict, n, "Unknown")

\* the range taken without its last day
GenerateBaseDataframeExclusive(s, e) ==
    LET a == Strptime(s)
        b == Strptime(e)
    IN  IF b <= a THEN <<>> ELSE [i \in 1..(b - a) |-> Strftime(a + i - 1)]

\* pd.date_range(start, end, freq="D") formatted back to strings
GenerateBaseDataframe(s, e) ==
    LET a == Strptime(s)
        b == Strptime(e)
    IN  IF b < a THEN <<>> ELSE [i \in 1..(b - a + 1) |-> Strftime(a + i - 1)]

CalendarRow(date) == [date |-> date, is_holiday |-> HolidayAnswer(oracle, date)]

\* a lookup that fails is answered as "not a holiday" and the row is kept
EnrichResultDefaulting(s, e, failAt) ==
    LET dates == GenerateBaseDataframe(s, e)
    IN  [ok    |-> TRUE,
         calls |-> Len(dates),
         rows  |-> [i \in DOMAIN dates |->
                      IF i = failAt
                      THEN [date |-> dates[i], is_holiday |-> FALSE]
                      ELSE CalendarRow(dates[i])]]

\* get_calendar_with_jalali_and_holidays: one lookup per day, in date order;
\* failAt is the first day whose lookup raises (0: none does)
EnrichResult(s, e, failAt) ==
    LET dates == GenerateBaseDataframe(s, e)
    IN  IF failAt = 0
        THEN [ok    |-> TRUE,
              calls |-> Len(dates),
              rows  |-> [i \in DOMAIN dates |-> CalendarRow(dates[i])]]
        ELSE [ok |-> FALSE, calls |-> failAt, rows |-> <<>>]

(***************************************************************************)
(* The relational store: two tables, each a sequence of rows.              *)
(***************************************************************************)
Keys(rows) == {rows[i].date : i \in DOMAIN rows}

ConflictKeys(rows) ==
    {k \in Keys(rows) : \E i, j \in DOMAIN rows :
        rows[i].date = k /\ rows[j].date = k /\ rows[i] # rows[j]}

RECURSIVE FirstPerKey(_, _)
FirstPerKey(rows, seen) ==
    IF rows = <<>> THEN <<>>
    ELSE IF Head(rows).date \in seen THEN FirstPerKey(Tail(rows), seen)
    ELSE <<Head(rows)>> \o FirstPerKey(Tail(rows), seen \cup {Head(rows).date})

\* the merge statement: upsert of the source rows into the target, keyed by
\* the gregorian date; pick resolves source rows that disagree on one key
Upsert(tgt, src, pick) ==
    LET kept   == SelectSeq(tgt, LAMBDA r : r.date \notin Keys(src))
        firsts == FirstPerKey(src, {})
    IN  kept \o [i \in DOMAIN firsts |->
                   IF firsts[i].date \in DOMAIN pick
                   THEN [firsts[i] EXCEPT !.is_holiday = pick[firsts[i].date]]
                   ELSE firsts[i]]

\* the truncate statement
TruncateTable(d, tbl) == [d EXCEPT ![tbl] = <<>>]

\* the table is replaced by the frame
ToSqlReplace(d, tbl, df) == [d EXCEPT ![tbl] = df]

\* df.to_sql(..., if_exists="append")
ToSqlAppend(d, tbl, df) == [d EXCEPT ![tbl] = d[tbl] \o df]

\* run_postgresql_query: connect, execute, commit, close; when connect raises
\* no connection exists, when execute raises the except branch logs and
\* re-raises and the close of line 60 is not reached
QueryOutcomes == {"ok", "connect_fails", "execute_fails"}
NoConn == [opened |-> 0, committed |-> 0, closed |-> 0]
RunPostgresqlQuery(c, res) ==
    CASE res = "ok" ->
           [opened |-> c.opened + 1, committed |-> c.committed + 1,
            closed |-> c.closed + 1]
      [] res = "execute_fails" -> [c EXCEPT !.opened = c.opened + 1]
      [] res = "connect_fails" -> c

\* the table references the driver hands to each step
AppendTableRefTarget == "target"
AppendTableRef == "source"

TruncateTableRefTarget == "target"
TruncateTableRef == "source"

IndexTableRefSource == "source"
IndexTableRef == "target"

MergeRefs == [source |-> "source", target |-> "target"]

(***************************************************************************)
(* Control flow of main and process_data_in_chunks.                        *)
(***************************************************************************)
NextStepTruncateFirst(step) ==
    CASE step = "create_source" -> "create_target"
      [] step = "create_target" -> "create_index"
      [] step = "create_index"  -> "enrich"
      [] step = "enrich"        -> "append"
      [] step = "append"        -> "truncate"
      [] step = "truncate"      -> "merge"
      [] step = "merge"         -> "enrich"

\* the statement that follows a step that returned
NextStep(step) ==
    CASE step = "create_source" -> "create_target"
      [] step = "create_target" -> "create_index"
      [] step = "create_index"  -> "enrich"
      [] step = "enrich"        -> "append"
      [] step = "append"        -> "merge"
      [] step = "merge"         -> "truncate"
      [] step = "truncate"      -> "enrich"

AfterFailureContinue(step) == NextStep(step)

\* where control goes when a step raises: out of the loop and out of main's body
AfterFailure(step) == "done"

NextChunkEndDateUnclamped(cur, size, endd) == AddDays(cur, size)

\* lines 66-72: min(strftime(strptime(current_date) + chunk_size days), end_date)
NextChunkEndDate(cur, size, endd) == StrMin(AddDays(cur, size), endd)

NextCursorSkip(chunkEnd) == AddDays(chunkEnd, 2)

\* lines 100-102: the day after the window's end
NextCursor(chunkEnd) == AddDays(chunkEnd, 1)

MainOutcomeReraise(failed) ==
    IF failed THEN [how |-> "raised", errorLogged |-> TRUE]
    ELSE [how |-> "returned", errorLogged |-> FALSE]

\* @logger.catch on main: an exception is logged and main returns None
MainOutcome(failed) ==
    IF failed THEN [how |-> "returned", errorLogged |-> TRUE]
    ELSE [how |-> "returned", errorLogged |-> FALSE]

Running == [how |-> "running", errorLogged |-> FALSE]

Op(name, s, e, ok) == [op |-> name, s |-> s, e |-> e, ok |-> ok]
Msg(name, s, e) == [msg |-> name, s |-> s, e |-> e]

\* "added_range" is the text "Successfully added the date range (s - e) to
\* the database.": main logs it with the window's dates after the truncate,
\* get_calendar_with_jalali_and_holidays logs it when the rows are built,
\* with "%s" left in place of each date (the logger formats with braces)
PercentS == <<37, 115>>

\* a step raised: the worker's logger.error (database steps), then the
\* exception leaves the loop and reaches main's decorator
Raise(step, workerLogs) ==
    LET to == AfterFailure(step)
        l1 == IF workerLogs THEN Append(log, Msg("error", NoDate, NoDate)) ELSE log
    IN  /\ pc' = to
        /\ error' = step
        /\ IF to = "done"
           THEN /\ outcome' = MainOutcome(TRUE)
                /\ log' = IF MainOutcome(TRUE).errorLogged
                          THEN Append(l1, Msg("catch", NoDate, NoDate)) ELSE l1
           ELSE /\ outcome' = outcome
                /\ log' = l1

StartBases == {<<2023, 12, 30>>, <<2024, 2, 27>>}

\* one call of a function of the enricher, and what it returned
NoCall == [fn |-> "none", num |-> 0, resp |-> TimedOut]
NoRet == [done |-> FALSE, name |-> "", info |-> Lookup("none", FALSE, <<>>)]
Numbers == (0 - MaxNumber)..MaxNumber
Calls ==
    {[fn |-> f, num |-> n, resp |-> TimedOut] :
        f \in {"quarter", "month", "weekday"}, n \in Numbers}
    \cup {[fn |-> "lookup", num |-> 0, resp |-> r] : r \in Responses}

EmptyDb == [source |-> <<>>, target |-> <<>>]
NoLookup == [calls |-> 0, failedAt |-> 0]

Init ==
    /\ \E b \in StartBases, span \in (0 - MaxBack)..MaxSpan :
          /\ start_date = Strftime(Ymd2Ord(b[1], b[2], b[3]))
          /\ end_date = Strftime(Ymd2Ord(b[1], b[2], b[3]) + span)
    /\ chunk_size \in 1..MaxChunk
    /\ oracle \in Oracles
    /\ run = 1
    /\ pc = "create_source"
    /\ current_date = NoDate
    /\ next_chunk_end_date = NoDate
    /\ chunk_calendar_df = <<>>
    /\ db = EmptyDb
    /\ ops = <<>>
    /\ log = <<>>
    /\ outcome = Running
    /\ error = "none"
    /\ lookup = NoLookup
    /\ winStartDb = EmptyDb
    /\ runStartDb = EmptyDb
    /\ prev = [ok |-> FALSE, clean |-> FALSE, staged |-> FALSE, oracle |-> "none",
               target |-> <<>>]
    /\ call = NoCall
    /\ ret = NoRet
    /\ conn = NoConn

inputs == <<start_date, end_date, chunk_size, oracle, run, runStartDb, prev,
            call, ret>>

\* create_source_and_target_tables, first iteration (source)
CreateSourceTable ==
    /\ pc = "create_source"
    /\ \E res \in QueryOutcomes : LET ok == (res = "ok") IN
         /\ conn' = RunPostgresqlQuery(conn, res)
         /\ ops' = Append(ops, Op("create_source", NoDate, NoDate, ok))
         /\ IF ok
            THEN /\ pc' = NextStep("create_source")
                 /\ log' = Append(log, Msg("created_source", NoDate, NoDate))
                 /\ UNCHANGED <<outcome, error>>
            ELSE Raise("create_source", TRUE)
    /\ UNCHANGED <<inputs, current_date, next_chunk_end_date, chunk_calendar_df,
                   db, lookup, winStartDb>>

\* create_source_and_target_tables, second iteration (target)
CreateTargetTable ==
    /\ pc = "create_target"
    /\ \E res \in QueryOutcomes : LET ok == (res = "ok") IN
         /\ conn' = RunPostgresqlQuery(conn, res)
         /\ ops' = Append(ops, Op("create_target", NoDate, NoDate, ok))
         /\ IF ok
            THEN /\ pc' = NextStep("create_target")
                 /\ log' = Append(log, Msg("created_target", NoDate, NoDate))
                 /\ UNCHANGED <<outcome, error>>
            ELSE Raise("create_target", TRUE)
    /\ UNCHANGED <<inputs, current_date, next_chunk_end_date, chunk_calendar_df,
                   db, lookup, winStartDb>>

\* create_target_table_index, then process_data_in_chunks lines 59-62
CreateTargetTableIndex ==
    /\ pc = "create_index"
    /\ \E res \in QueryOutcomes : LET ok == (res = "ok") IN
         /\ conn' = RunPostgresqlQuery(conn, res)
         /\ ops' = Append(ops, Op("index_" \o IndexTableRef, NoDate, NoDate, ok))
         /\ IF ok
            THEN /\ pc' = NextStep("create_index")
                 /\ log' = Append(log, Msg("created_index", NoDate, NoDate))
                 /\ current_date' = start_date
                 /\ UNCHANGED <<outcome, error>>
            ELSE /\ Raise("create_index", TRUE)
                 /\ UNCHANGED current_date
    /\ UNCHANGED <<inputs, next_chunk_end_date, chunk_calendar_df, db, lookup,
                   winStartDb>>

\* loop test true: window end, then get_calendar_with_jalali_and_holidays
Enrich ==
    /\ pc = "enrich"
    /\ StrLE(current_date, end_date)
    /\ LET nce == NextChunkEndDate(current_date, chunk_size, end_date)
           n   == Len(GenerateBaseDataframe(current_date, nce))
       IN  \E failAt \in 0..n :
             LET res == EnrichResult(current_date, nce, failAt)
             IN  /\ next_chunk_end_date' = nce
                 /\ lookup' = [calls |-> res.calls, failedAt |-> failAt]
                 /\ winStartDb' = db
                 /\ ops' = Append(ops, Op("enrich", current_date, nce, res.ok))
                 /\ IF res.ok
                    THEN /\ chunk_calendar_df' = res.rows
                         /\ pc' = NextStep("enrich")
                         /\ log' = Append(log, Msg("added_range", PercentS, PercentS))
                         /\ UNCHANGED <<outcome, error>>
                    ELSE /\ Raise("enrich", FALSE)
                         /\ UNCHANGED chunk_calendar_df
    /\ UNCHANGED <<inputs, current_date, db, conn>>

\* write_dataframe_to_postgres into the source table
AppendToSource ==
    /\ pc = "append"
    /\ \E ok \in BOOLEAN :
         /\ ops' = Append(ops, Op("append", current_date, next_chunk_end_date, ok))
         /\ IF ok
            THEN /\ db' = ToSqlAppend(db, AppendTableRef, chunk_calendar_df)
                 /\ pc' = NextStep("append")
                 /\ log' = Append(log, Msg("written", current_date, next_chunk_end_date))
                 /\ UNCHANGED <<outcome, error>>
            ELSE /\ Raise("append", TRUE)
                 /\ UNCHANGED db
    /\ UNCHANGED <<inputs, current_date, next_chunk_end_date, chunk_calendar_df,
                   lookup, winStartDb, conn>>

\* merge_source_into_target
MergeSourceIntoTarget ==
    /\ pc = "merge"
    /\ \E res \in QueryOutcomes : LET ok == (res = "ok") IN
         /\ conn' = RunPostgresqlQuery(conn, res)
         /\ ops' = Append(ops, Op("merge", current_date, next_chunk_end_date, ok))
         /\ IF ok
            THEN /\ \E pick \in [ConflictKeys(db[MergeRefs.source]) -> BOOLEAN] :
                      db' = [db EXCEPT ![MergeRefs.target] =
                                Upsert(db[MergeRefs.target], db[MergeRefs.source], pick)]
                 /\ pc' = NextStep("merge")
                 /\ log' = Append(log, Msg("merged", current_date, next_chunk_end_date))
                 /\ UNCHANGED <<outcome, error>>
            ELSE /\ Raise("merge", TRUE)
                 /\ UNCHANGED db
    /\ UNCHANGED <<inputs, current_date, next_chunk_end_date, chunk_calendar_df,
                   lookup, winStartDb>>

\* truncate_source_table, the per-chunk message and the cursor advance
TruncateSourceTable ==
    /\ pc = "truncate"
    /\ \E res \in QueryOutcomes : LET ok == (res = "ok") IN
         /\ conn' = RunPostgresqlQuery(conn, res)
         /\ ops' = Append(ops, Op("truncate", current_date, next_chunk_end_date, ok))
         /\ IF ok
            THEN /\ db' = TruncateTable(db, TruncateTableRef)
                 /\ pc' = NextStep("truncate")
                 /\ log' = log \o <<Msg("truncated", current_date, next_chunk_end_date),
                                    Msg("added_range", current_date, next_chunk_end_date)>>
                 /\ current_date' = NextCursor(next_chunk_end_date)
                 /\ UNCHANGED <<outcome, error>>
            ELSE /\ Raise("truncate", TRUE)
                 /\ UNCHANGED <<db, current_date>>
    /\ UNCHANGED <<inputs, next_chunk_end_date, chunk_calendar_df, lookup, winStartDb>>

\* loop test false: process_data_in_chunks returns, main logs and returns
Finish ==
    /\ pc = "enrich"
    /\ ~StrLE(current_date, end_date)
    /\ pc' = "done"
    /\ log' = Append(log, Msg("final", NoDate, NoDate))
    /\ outcome' = MainOutcome(FALSE)
    /\ UNCHANGED <<inputs, current_date, next_chunk_end_date, chunk_calendar_df,
                   db, ops, error, lookup, winStartDb, conn>>

\* the operator runs the program again over the same range
Rerun ==
    /\ pc = "done"
    /\ run < MaxRuns
    /\ run' = run + 1
    /\ oracle' \in Oracles
    /\ prev' = [ok |-> (error = "none"), clean |-> (runStartDb.source = <<>>),
                staged |-> (error \in {"merge", "truncate"}),
                oracle |-> oracle, target |-> db.target]
    /\ runStartDb' = db
    /\ winStartDb' = db
    /\ pc' = "create_source"
    /\ current_date' = NoDate
    /\ next_chunk_end_date' = NoDate
    /\ chunk_calendar_df' = <<>>
    /\ ops' = <<>>
    /\ log' = <<>>
    /\ outcome' = Running
    /\ error' = "none"
    /\ lookup' = NoLookup
    /\ conn' = NoConn
    /\ UNCHANGED <<start_date, end_date, chunk_size, db, call, ret>>

Next ==
    \/ CreateSourceTable
    \/ CreateTargetTable
    \/ CreateTargetTableIndex
    \/ Enrich
    \/ AppendToSource
    \/ MergeSourceIntoTarget
    \/ TruncateSourceTable
    \/ Finish
    \/ Rerun

Spec == Init /\ [][Next]_vars

(***************************************************************************)
(* The functions of the enricher, each applied once to one argument.       *)
(***************************************************************************)
main_vars == <<start_date, end_date, chunk_size, oracle, run, pc, current_date,
               next_chunk_end_date, chunk_calendar_df, db, ops, log, outcome,
               error, lookup, winStartDb, runStartDb, prev, conn>>

InitFn ==
    /\ call \in Calls
    /\ conn = NoConn
    /\ ret = NoRet
    /\ start_date = Strftime(Ymd2Ord(2024, 1, 1))
    /\ end_date = Strftime(Ymd2Ord(2024, 1, 1))
    /\ chunk_size = 1
    /\ oracle = "every_day"
    /\ run = 1
    /\ pc = "enricher"
    /\ current_date = NoDate
    /\ next_chunk_end_date = NoDate
    /\ chunk_calendar_df = <<>>
    /\ db = EmptyDb
    /\ ops = <<>>
    /\ log = <<>>
    /\ outcome = Running
    /\ error = "none"
    /\ lookup = NoLookup
    /\ winStartDb = EmptyDb
    /\ runStartDb = EmptyDb
    /\ prev = [ok |-> FALSE, clean |-> FALSE, staged |-> FALSE, oracle |-> "none",
               target |-> <<>>]

CallHolidayInfoPerDay ==
    /\ call.fn = "lookup"
    /\ ~ret.done
    /\ ret' = [done |-> TRUE, name |-> "", info |-> GetHolidayInfoPerDay(call.resp)]
    /\ UNCHANGED <<main_vars, call>>

CallMapQuarter ==
    /\ call.fn = "quarter"
    /\ ~ret.done
    /\ ret' = [NoRet EXCEPT !.done = TRUE, !.name = MapQuarterNumberToName(call.num)]
    /\ UNCHANGED <<main_vars, call>>

CallMapMonth ==
    /\ call.fn = "month"
    /\ ~ret.done
    /\ ret' = [NoRet EXCEPT !.done = TRUE, !.name = MapMonthNumberToName(call.num)]
    /\ UNCHANGED <<main_vars, call>>

CallMapWeekday ==
    /\ call.fn = "weekday"
    /\ ~ret.done
    /\ ret' = [NoRet EXCEPT !.done = TRUE, !.name = MapWeekdayNumberToName(call.num)]
    /\ UNCHANGED <<main_vars, call>>

NextFn ==
    \/ CallHolidayInfoPerDay
    \/ CallMapQuarter
    \/ CallMapMonth
    \/ CallMapWeekday

SpecFn == InitFn /\ [][NextFn]_vars

(***************************************************************************)
(* Vocabulary of the properties.                                           *)
(***************************************************************************)
WindowSteps == {"enrich", "append", "merge", "truncate"}
ProvisionSteps == {"create_source", "create_target", "create_index"}

Windows == SelectSeq(ops, LAMBDA o : o.op = "enrich")
WindowOps == SelectSeq(ops, LAMBDA o : o.op \in WindowSteps)
Count(name) == Cardinality({i \in DOMAIN ops : ops[i].op = name})
AllOk == \A i \in DOMAIN ops : ops[i].ok

Succeeded == pc = "done" /\ error = "none"
Failed == pc = "done" /\ error # "none"

FirstDay == Strptime(start_date)
LastDay == Strptime(end_date)
RangeValid == FirstDay <= LastDay
RangeDays == FirstDay..LastDay
DaysOf(w) == Strptime(w.s)..Strptime(w.e)
DateRange == {Strftime(n) : n \in RangeDays}

Minimum(a, b) == IF a <= b THEN a ELSE b

\* the rows of the days s..e as the holiday service answers now
ExpectedRows(s, e) ==
    [i \in 1..(Strptime(e) - Strptime(s) + 1) |->
        [date |-> Strftime(Strptime(s) + i - 1),
         is_holiday |-> HolidayAnswer(oracle, Strftime(Strptime(s) + i - 1))]]

NoDuplicateDate(rows) ==
    \A i, j \in DOMAIN rows : rows[i].date = rows[j].date => i = j

RowSet(rows) == {rows[i] : i \in DOMAIN rows}

\* C1: for start <= end the windows handed to the enricher partition
\* [start, end]: the first starts at start, each next one starts the day
\* after the previous one's end, no day is in two windows, and when the run
\* has completed every day is in exactly one window and the last ends at end.
C1_WindowsPartitionRange ==
    RangeValid =>
      LET W == Windows
      IN  /\ W # <<>> => W[1].s = start_date
          /\ \A i \in DOMAIN W :
                /\ Strptime(W[i].s) <= Strptime(W[i].e)
                /\ Strptime(W[i].e) <= LastDay
          /\ \A i \in 1..(Len(W) - 1) : Strptime(W[i + 1].s) = Strptime(W[i].e) + 1
          /\ \A d \in RangeDays :
                Cardinality({i \in DOMAIN W : d \in DaysOf(W[i])}) <= 1
          /\ Succeeded =>
                /\ W # <<>>
                /\ W[Len(W)].e = end_date
                /\ \A d \in RangeDays :
                      Cardinality({i \in DOMAIN W : d \in DaysOf(W[i])}) = 1

C1_Witness ==
    /\ Succeeded
    /\ RangeValid
    /\ Len(Windows) >= 2
    /\ Windows[1].s = start_date
    /\ Windows[Len(Windows)].e = end_date

\* C2: every window ends at min(current + chunk_size - 1 day, end), i.e.
\* every window but the last covers exactly chunk_size days.
C2_WindowEndIsChunkSizeDays ==
    RangeValid =>
      \A i \in DOMAIN Windows :
         Strptime(Windows[i].e)
           = Minimum(Strptime(Windows[i].s) + chunk_size - 1, LastDay)

\* C3: in a run without failure the window operations are enrich, append,
\* merge, truncate repeated once per window, each group on one window and
\* finished before the next window's group starts; a range of at most
\* chunk_size days is loaded with exactly one append, merge and truncate.
C3_StepsInOrderPerWindow ==
    AllOk =>
      LET P == WindowOps
          cycle == <<"enrich", "append", "merge", "truncate">>
      IN  /\ \A i \in DOMAIN P :
                /\ P[i].op = cycle[((i - 1) % 4) + 1]
                /\ (i % 4 # 1) => (P[i].s = P[i - 1].s /\ P[i].e = P[i - 1].e)
                /\ (i % 4 = 1 /\ i > 1) => Strptime(P[i].s) > Strptime(P[i - 1].e)
          /\ Succeeded =>
                /\ Len(P) = 4 * Len(Windows)
                /\ Count("append") = Len(Windows)
                /\ Count("merge") = Len(Windows)
                /\ Count("truncate") = Len(Windows)
          /\ (Succeeded /\ RangeValid /\ LastDay - FirstDay + 1 <= chunk_size) =>
                /\ Count("append") = 1
                /\ Count("merge") = 1
                /\ Count("truncate") = 1

C3_Witness ==
    /\ Succeeded
    /\ Len(Windows) >= 2
    /\ Len(WindowOps) = 4 * Len(Windows)
    /\ WindowOps[Len(WindowOps)].op = "truncate"

\* C4: provisioning happens once and first: the operations of a run start
\* with create(source), create(target), index(target), in that order, none of
\* them is issued again or against another table, every window operation
\* comes after all three have succeeded, and a run whose provisioning fails
\* issues no window operation.
C4_ProvisioningOnceAndFirst ==
    LET expected == <<"create_source", "create_target", "index_target">>
    IN  /\ \A i \in DOMAIN ops :
              IF i <= 3 THEN ops[i].op = expected[i]
              ELSE ops[i].op \in WindowSteps
        /\ (\E i \in DOMAIN ops : ops[i].op \in WindowSteps) =>
              \A i \in 1..3 : ops[i].ok
        /\ error \in ProvisionSteps => WindowOps = <<>>
        /\ pc \in WindowSteps => Len(ops) >= 3
        /\ Succeeded => Len(ops) >= 3

C4_Witness ==
    /\ pc = "done"
    /\ Len(Windows) >= 1
    /\ ops[1].op = "create_source"
    /\ ops[2].op = "create_target"
    /\ ops[3].op = "index_target"
    /\ Count("index_target") = 1

\* C5: a step that fails is the last operation of its run: nothing is issued
\* after it, neither a retry of the window nor a later window.
C5_FailureAbortsRun ==
    \A i \in DOMAIN ops : ~ops[i].ok => (i = Len(ops) /\ pc = "done")

C5_Witness ==
    /\ Failed
    /\ error = "merge"
    /\ Strptime(next_chunk_end_date) < LastDay
    /\ ~ops[Len(ops)].ok

\* C6 as stated: when a step fails, main ends by raising that error to its
\* caller.
C6_FailureRaisedToCaller ==
    Failed => outcome.how = "raised"

\* C6 amended: when a step fails the run stops there, main's logger.catch
\* wrapper logs the error, the final completion message is not logged, and
\* main returns normally to its caller.
C6_FailureLoggedAndMainReturns ==
    Failed =>
      /\ outcome.how = "returned"
      /\ outcome.errorLogged
      /\ log # <<>>
      /\ log[Len(log)].msg = "catch"
      /\ \A i \in DOMAIN log : log[i].msg # "final"
      /\ ~ops[Len(ops)].ok

C6_Witness ==
    /\ Failed
    /\ error = "truncate"
    /\ outcome.how = "returned"

C8_StagingHoldsOneWindow ==
    runStartDb.source = <<>> =>
      /\ \/ db.source = <<>>
         \/ db.source = ExpectedRows(current_date, next_chunk_end_date)
      /\ pc \in {"merge", "truncate"} =>
            db.source = ExpectedRows(current_date, next_chunk_end_date)
      /\ pc \in (ProvisionSteps \cup {"enrich", "append"}) => db.source = <<>>
      /\ Succeeded => db.source = <<>>

C8_Witness ==
    /\ runStartDb.source = <<>>
    /\ pc = "truncate"
    /\ Len(Windows) >= 2
    /\ db.source = ExpectedRows(current_date, next_chunk_end_date)
    /\ db.source # <<>>

\* C9: after a successful run against an initially empty target the target
\* holds exactly one row for every date of [start, end] and no other row.
C9_TargetOneRowPerDate ==
    (Succeeded /\ runStartDb.target = <<>>) =>
      /\ Keys(db.target) = DateRange
      /\ Len(db.target) = Cardinality(DateRange)

C9_Witness ==
    /\ Succeeded
    /\ runStartDb.target = <<>>
    /\ Len(Windows) >= 2
    /\ Len(db.target) >= 4

\* C10: a successful run that follows a successful run from an empty staging
\* table, with the holiday service answering the same, leaves the target
\* with the same set of rows as before it and without a duplicate date.
C10_RerunLeavesTargetUnchanged ==
    (run >= 2 /\ Succeeded /\ prev.ok /\ prev.clean /\ prev.oracle = oracle) =>
      /\ RowSet(db.target) = RowSet(prev.target)
      /\ NoDuplicateDate(db.target)

C10_Witness ==
    /\ run = 2
    /\ Succeeded
    /\ prev.ok
    /\ prev.clean
    /\ prev.oracle = oracle
    /\ Len(Windows) >= 2
    /\ db.target # <<>>

IsPrefix(a, b) == Len(a) <= Len(b) /\ SubSeq(b, 1, Len(a)) = a

\* C11: the append step only adds rows at the end of staging and leaves the
\* target alone, the truncate step leaves the target alone, and every step
\* that changes the target is a merge step.
C11_TargetChangedOnlyByMerge ==
    [][ /\ pc = "append" => (db'.target = db.target /\ IsPrefix(db.source, db'.source))
        /\ pc = "truncate" => db'.target = db.target
        /\ db'.target # db.target => pc = "merge" ]_vars

C11_Witness ==
    /\ run >= 2
    /\ pc = "merge"
    /\ runStartDb.source # <<>>
    /\ db.target # <<>>
    /\ Len(db.source) = Len(runStartDb.source) + Len(chunk_calendar_df)
    /\ IsPrefix(runStartDb.source, db.source)

\* C12: the rows an enrich call returns are one per day of its inclusive
\* range, in ascending date order, the i-th row carrying the i-th day; a call
\* on a single day returns one row, of that day.
C12_EnrichOneRowPerDay ==
    pc \in {"append", "merge", "truncate"} =>
      /\ Len(chunk_calendar_df)
            = Strptime(next_chunk_end_date) - Strptime(current_date) + 1
      /\ \A i \in DOMAIN chunk_calendar_df :
            Strptime(chunk_calendar_df[i].date) = Strptime(current_date) + i - 1
      /\ chunk_calendar_df[1].date = current_date
      /\ chunk_calendar_df[Len(chunk_calendar_df)].date = next_chunk_end_date
      /\ current_date = next_chunk_end_date =>
            (Len(chunk_calendar_df) = 1 /\ chunk_calendar_df[1].date = current_date)

C12_Witness ==
    /\ pc = "append"
    /\ current_date = next_chunk_end_date
    /\ Len(chunk_calendar_df) = 1
    /\ chunk_calendar_df[1].date = current_date
    /\ Len(Windows) >= 2

Flagged(events) == SelectSeq(events, LAMBDA ev : ev.is_holiday)

RECURSIVE CommaJoined(_)
\* the descriptions of the events, a comma and a space before each but the first
CommaJoined(events) ==
    IF events = <<>> THEN <<>>
    ELSE IF Len(events) = 1 THEN events[1].description
    ELSE CommaJoined(SubSeq(events, 1, Len(events) - 1))
            \o <<Comma, Space>> \o events[Len(events)].description

\* C13: a lookup that returns says is_holiday exactly when some event of the
\* response is flagged, and holiday_events is the comma-joined descriptions
\* of the flagged events in response order, the empty string when none is.
C13_HolidayInfoFromFlaggedEvents ==
    (ret.done /\ call.fn = "lookup" /\ ret.info.raised = "none") =>
      /\ ret.info.is_holiday = (\E i \in DOMAIN call.resp.events :
                                   call.resp.events[i].is_holiday)
      /\ ret.info.holiday_events = CommaJoined(Flagged(call.resp.events))
      /\ Flagged(call.resp.events) = <<>> =>
            (~ret.info.is_holiday /\ ret.info.holiday_events = <<>>)

C13_Witness ==
    /\ ret.done
    /\ call.fn = "lookup"
    /\ ret.info.raised = "none"
    /\ Len(call.resp.events) = 3
    /\ Len(Flagged(call.resp.events)) = 2
    /\ ~call.resp.events[2].is_holiday
    /\ ret.info.is_holiday
    /\ ret.info.holiday_events = <<65, 44, 32, 66>>

\* C14: a lookup that times out, whose body is malformed or whose status is
\* not 2xx raises (so that enrich fails and records nothing for the day).
C14_FailedLookupRaises ==
    (ret.done /\ call.fn = "lookup"
       /\ (\/ ~call.resp.arrives
           \/ ~call.resp.parses
           \/ ~call.resp.has_events
           \/ call.resp.status \notin 200..299)) =>
      ret.info.raised # "none"

ExpectedDomain(fn) ==
    CASE fn = "quarter" -> 1..4
      [] fn = "month"   -> 1..12
      [] fn = "weekday" -> 0..6

MapOf(fn, n) ==
    CASE fn = "quarter" -> MapQuarterNumberToName(n)
      [] fn = "month"   -> MapMonthNumberToName(n)
      [] fn = "weekday" -> MapWeekdayNumberToName(n)

\* C15: each name mapping gives a number of its domain a name other than
\* "Unknown" that no other number of the domain gets, gives it the same name
\* every time, and gives every number outside the domain "Unknown".
C15_NameMappingsTotal ==
    (ret.done /\ call.fn \in {"quarter", "month", "weekday"}) =>
      /\ call.num \in ExpectedDomain(call.fn) =>
            /\ ret.name # "Unknown"
            /\ ret.name = MapOf(call.fn, call.num)
            /\ \A m \in ExpectedDomain(call.fn) \ {call.num} :
                  MapOf(call.fn, m) # ret.name
      /\ call.num \notin ExpectedDomain(call.fn) => ret.name = "Unknown"

C15_Witness ==
    /\ ret.done
    /\ call.fn = "month"
    /\ call.num = 12
    /\ ret.name = "esfand"

\* C16: no step clears staging before the first truncate of a run: until
\* then staging keeps the rows it held when the run started, so after a run
\* that failed between a window's append and the end of its truncate the
\* first merge of the next run reads those rows followed by the fresh ones.
C16_StaleRowsReachFirstMerge ==
    /\ (run >= 2 /\ prev.staged) => runStartDb.source # <<>>
    /\ Count("truncate") = 0 =>
          /\ pc \in (ProvisionSteps \cup {"enrich", "append"}) =>
                db.source = runStartDb.source
          /\ pc \in {"merge", "truncate"} =>
                db.source = runStartDb.source \o chunk_calendar_df

C16_Witness ==
    /\ run >= 2
    /\ prev.staged
    /\ pc = "merge"
    /\ Count("truncate") = 0
    /\ db.source = runStartDb.source \o chunk_calendar_df
    /\ ~NoDuplicateDate(db.source)

QueryOps == {"create_source", "create_target", "index_target", "merge", "truncate"}

\* C17: after every execute call has ended, returned or raised, no
\* connection it opened is still open, and every call that returned has
\* committed.
C17_NoConnectionLeftOpen ==
    /\ conn.closed = conn.opened
    /\ conn.committed
          = Cardinality({i \in DOMAIN ops : ops[i].op \in QueryOps /\ ops[i].ok})

IsCompletion(m) == m.msg = "added_range"
CountMsgs(name, upto) == Cardinality({i \in 1..upto : log[i].msg = name})

\* C18: a successful run over k windows logs k per-chunk completion messages
\* and one final message, last; each completion message comes after the
\* truncate of its window; a failed run logs no final message and a
\* completion message only for the windows whose truncate succeeded.
C18_CompletionMessages ==
    /\ Succeeded =>
          /\ CountMsgs("added_range", Len(log)) = Len(Windows)
          /\ CountMsgs("final", Len(log)) = 1
          /\ log[Len(log)].msg = "final"
    /\ \A i \in DOMAIN log :
          IsCompletion(log[i]) =>
             CountMsgs("added_range", i) <= CountMsgs("truncated", i)
    /\ Failed =>
          /\ CountMsgs("final", Len(log)) = 0
          /\ CountMsgs("added_range", Len(log)) = CountMsgs("truncated", Len(log))

\* C19 as stated: for every start and end a run without failure ends with the
\* cursor at end + 1 day.
C19_CursorEndsDayAfterEnd ==
    Succeeded => current_date = Strftime(LastDay + 1)

\* C19 amended: the cursor is set to start when the loop is entered and is
\* then changed only by the advance at the end of an iteration, to the day
\* after a window end that is not before the cursor, so it strictly
\* increases; a run without failure over start <= end has at most one window
\* per day of the range and ends with the cursor at end + 1 day, and a run
\* over start > end has no window and ends with the cursor at start.
C19_CursorIncreasesToDayAfterEnd ==
    /\ [](Succeeded =>
            IF RangeValid
            THEN current_date = Strftime(LastDay + 1)
            ELSE current_date = start_date /\ Windows = <<>>)
    /\ [](RangeValid => Len(Windows) <= LastDay - FirstDay + 1)
    /\ [][ current_date' # current_date =>
             \/ pc = "create_index" /\ current_date' = start_date
             \/ pc = "done" /\ current_date' = NoDate
             \/ /\ pc = "truncate"
                /\ Strptime(current_date) <= Strptime(next_chunk_end_date)
                /\ Strptime(current_date') = Strptime(next_chunk_end_date) + 1
                /\ Strptime(current_date') > Strptime(current_date) ]_vars

C19_Witness ==
    /\ Succeeded
    /\ RangeValid
    /\ Len(Windows) >= 2
    /\ current_date = Strftime(LastDay + 1)

====
